---- MODULE Spec2Model ----
(***************************************************************************)
(* smtp2go_exporter: five Prometheus collectors (cycle, bounces, history,  *)
(* spam, unsubs), each fetching one stats endpoint with doPostRequest and  *)
(* mapping the JSON response onto its gauges under a per-collector mutex.  *)
(*                                                                         *)
(* Strings the program inspects are sequences of tokens: a base URL is a   *)
(* sequence of runs ("https", ":", "/", ...), a percentage is a sequence   *)
(* of characters, a timestamp is <<date, separator, clock, zone>>.         *)
(* A float is an integer where the program only copies it, and a decimal   *)
(* [mant, exp] (mant * 10^-exp, trailing zeros stripped) where the program *)
(* parses it from text.                                                    *)
(***************************************************************************)
EXTENDS Integers, Sequences, FiniteSets, TLC

\* ------------------------------------------------------------------ bounds

\* Collect() calls started in one run, over all scrape goroutines.
MaxCalls == 2

\* Collect() calls started in one run of ProbeSpec.
MaxProbeCalls == 1

\* Clock readings after process start, one TickSeconds apart.
MaxTicks == 1

TickSeconds == 60 * 60

DaySeconds == 24 * 60 * 60

\* Goroutines of the HTTP server that run Collect() (one per scrape in flight).
Scrapers == {"s1", "s2"}

Collectors == {"cycle", "bounces", "history", "spam", "unsubs"}

\* ------------------------------------------------------------- URL strings

\* Runs of ASCII letters: getScheme scans over them.
LetterRuns == {"https", "host", "stats"}

\* -apiURL values tried at startup.
FlagURLs ==
    { <<"https", ":", "/", "/", "host", "/", "v3">>,
      <<"https", ":", "/", "/", "host", "/", "v3", "/">>,
      <<"host">>,
      <<":">>,
      <<"/">>,
      <<>> }

\* -apiKey values tried at startup.
FlagKeys == {"", "key"}

\* The flags main() defines before flag.Parse().
DefinedFlags == {"apiURL", "apiKey", "debug", "listen"}

\* The flags of the README's example invocation, with its base URL (it ends
\* with a slash) and a key.
ReadmeFlags == {"api-url", "api-key"}

ReadmeURL == <<"https", ":", "/", "/", "host", "/", "v3", "/">>

ReadmeKey == "key"

\* Command lines tried at startup: the flag names given, the value given for
\* the base URL and the value given for the key.
CommandLines ==
    {[flags |-> {"apiURL", "apiKey"}, url |-> u, key |-> k] : u \in FlagURLs, k \in FlagKeys}
    \cup {[flags |-> ReadmeFlags, url |-> ReadmeURL, key |-> ReadmeKey]}

\* flag.Parse() with the default ExitOnError flag set: a flag that is not
\* defined is reported and ends the process.
flagParseFails(given) == ~(given \subseteq DefinedFlags)

\* doPostRequest: the request it builds from the collector's base URL, the
\* endpoint and the collector's key.
PostRequest(baseURL, endpoint, key) ==
    [method |-> "POST", url |-> baseURL \o endpoint, api_key |-> key]

\* A doPostRequest whose debug branch uses up the body it logs.
doPostRequestResult_DebugDrains(body, dbg) ==
    [body |-> IF dbg THEN [t |-> "bad"] ELSE body,
     logged |-> IF dbg THEN <<body>> ELSE <<>>]

\* doPostRequest after client.Do succeeded: the bytes read from the response
\* are returned, and with debug set they are also logged.
doPostRequestResult(body, dbg) ==
    [body |-> body, logged |-> IF dbg THEN <<body>> ELSE <<>>]

\* One endpoint literal in every Collect().
Endpoint_SamePath(c) == <<"/", "stats", "/", "email_cycle">>

\* The endpoint literal each Collect() passes to doPostRequest.
Endpoint(c) ==
    CASE c = "cycle"   -> <<"/", "stats", "/", "email_cycle">>
      [] c = "bounces" -> <<"/", "stats", "/", "email_bounces">>
      [] c = "history" -> <<"/", "stats", "/", "email_history">>
      [] c = "spam"    -> <<"/", "stats", "/", "email_spam">>
      [] c = "unsubs"  -> <<"/", "stats", "/", "email_unsubs">>

\* strings.TrimRight(s, "/"): every trailing "/" is removed.
RECURSIVE TrimRight(_)
TrimRight(s) ==
    IF Len(s) > 0 /\ s[Len(s)] = "/"
    THEN TrimRight(SubSeq(s, 1, Len(s) - 1))
    ELSE s

\* net/url getScheme as http.NewRequest runs it on the full URL: "err" when
\* the URL starts with a colon, "scheme" when a colon ends a run of scheme
\* characters, "none" otherwise.
RECURSIVE getScheme(_, _)
getScheme(u, i) ==
    IF i > Len(u) THEN "none"
    ELSE IF u[i] \in LetterRuns THEN getScheme(u, i + 1)
    ELSE IF u[i] = ":" THEN (IF i = 1 THEN "err" ELSE "scheme")
    ELSE "none"

\* The first path segment of a URL without scheme and leading slash must not
\* contain a colon (net/url parse).
FirstSegmentHasColon(u) ==
    \E i \in 1..Len(u) : u[i] = ":" /\ \A j \in 1..(i - 1) : u[j] # "/"

\* http.NewRequest("POST", fullURL, ...) returns a nil request and an error
\* exactly when url.Parse(fullURL) fails.
NewRequestFails(fullURL) ==
    \/ getScheme(fullURL, 1) = "err"
    \/ /\ getScheme(fullURL, 1) = "none"
       /\ (Len(fullURL) = 0 \/ fullURL[1] # "/")
       /\ FirstSegmentHasColon(fullURL)

\* client.Do refuses a request whose URL has no scheme ("unsupported protocol
\* scheme"): such a request always ends in a transport error.
HasScheme(fullURL) == getScheme(fullURL, 1) = "scheme"

\* ------------------------------------------------------------ JSON values

JBad == [t |-> "bad"]
JNull == [t |-> "null"]
JNum(x) == [t |-> "num", n |-> x]
JStr(x) == [t |-> "str", s |-> x]
JObj(fields) == [t |-> "obj", f |-> fields]
JArr(elems) == [t |-> "arr", a |-> elems]
JEmptyObj == [t |-> "obj", f |-> <<>>]

\* encoding/json: a member that is absent or null leaves the Go field at its
\* zero value.
Field(v, k) == IF v.t = "obj" /\ k \in DOMAIN v.f THEN v.f[k] ELSE JNull

\* A decoder that rejects a member that is absent or null.
decodeFloat_RejectsNull(v) ==
    CASE v.t = "num"  -> [err |-> FALSE, val |-> v.n]
      [] OTHER        -> [err |-> TRUE, val |-> 0]

\* Decoding into float64.
decodeFloat(v) ==
    CASE v.t = "null" -> [err |-> FALSE, val |-> 0]
      [] v.t = "num"  -> [err |-> FALSE, val |-> v.n]
      [] OTHER        -> [err |-> TRUE, val |-> 0]

\* A decoder that reads a member of another JSON type as the empty string.
decodeString_AcceptsAnyType(v) ==
    CASE v.t = "str"  -> [err |-> FALSE, val |-> v.s]
      [] OTHER        -> [err |-> FALSE, val |-> <<>>]

\* Decoding into string.
decodeString(v) ==
    CASE v.t = "null" -> [err |-> FALSE, val |-> <<>>]
      [] v.t = "str"  -> [err |-> FALSE, val |-> v.s]
      [] OTHER        -> [err |-> TRUE, val |-> <<>>]

\* Decoding into a struct: an object or null is accepted.
structErr(v) == v.t \notin {"obj", "null"}

\* --------------------------------------------------------------- decimals

Dec(m, e) == [mant |-> m, exp |-> e]

RECURSIVE Normalize(_, _)
Normalize(m, e) ==
    IF e > 0 /\ m % 10 = 0 THEN Normalize(m \div 10, e - 1) ELSE Dec(m, e)

DigitVal ==
    "0" :> 0 @@ "1" :> 1 @@ "2" :> 2 @@ "3" :> 3 @@ "4" :> 4 @@
    "5" :> 5 @@ "6" :> 6 @@ "7" :> 7 @@ "8" :> 8 @@ "9" :> 9

RECURSIVE digitsValue(_, _)
digitsValue(s, acc) ==
    IF s = <<>> THEN acc
    ELSE digitsValue(Tail(s), 10 * acc + DigitVal[Head(s)])

IsNotDot(ch) == ch # "."

\* strconv.ParseFloat(s, 64) on the decimal syntax: an optional sign, digits
\* with at most one point, at least one digit, nothing left over.
ParseFloat(s) ==
    LET signLen == IF Len(s) > 0 /\ s[1] \in {"+", "-"} THEN 1 ELSE 0
        neg == Len(s) > 0 /\ s[1] = "-"
        rest == SubSeq(s, signLen + 1, Len(s))
        dots == {i \in 1..Len(rest) : rest[i] = "."}
        digits == SelectSeq(rest, IsNotDot)
        ok == /\ \A i \in 1..Len(rest) : rest[i] \in (DOMAIN DigitVal) \cup {"."}
              /\ Cardinality(dots) <= 1
              /\ Len(digits) >= 1
        fracLen == IF dots = {} THEN 0 ELSE Len(rest) - (CHOOSE i \in dots : TRUE)
        mant == digitsValue(digits, 0)
    IN  IF ok
        THEN [err |-> FALSE, val |-> Normalize(IF neg THEN 0 - mant ELSE mant, fracLen)]
        ELSE [err |-> TRUE, val |-> Dec(0, 0)]

\* ------------------------------------------------------------- timestamps

DateDays == "1970-01-01" :> 0 @@ "1970-01-02" :> 1

ClockSecs == "00:00:00" :> 0 @@ "01:00:00" :> 60 * 60

ZoneOffset == "+00:00" :> 0 @@ "+01:00" :> 60 * 60 @@ "-01:00" :> 0 - 60 * 60

\* time.Parse("2006-01-02 15:04:05-07:00", s): the date, one space, the clock
\* and a signed hh:mm zone; the instant is the wall time minus the offset.
timeParse(s) ==
    IF /\ Len(s) = 4
       /\ s[1] \in DOMAIN DateDays
       /\ s[2] = " "
       /\ s[3] \in DOMAIN ClockSecs
       /\ s[4] \in DOMAIN ZoneOffset
    THEN [err |-> FALSE,
          val |-> DateDays[s[1]] * DaySeconds + ClockSecs[s[3]] - ZoneOffset[s[4]]]
    ELSE [err |-> TRUE, val |-> 0]

\* ------------------------------------------------------- response bodies

P0 == <<"0">>

P125 == <<"1", "2", ".", "5">>

PNeg == <<"-", "0", ".", "5", "0">>

PBad == <<"1", "2", "%">>

Envelope(data) == JObj("request_id" :> JStr(<<"id">>) @@ "data" :> data)

BouncesObj(e, r, s, h, p) ==
    JObj("emails" :> JNum(e) @@ "rejects" :> JNum(r) @@ "softbounces" :> JNum(s)
         @@ "hardbounces" :> JNum(h) @@ "bounce_percent" :> p)

\* Bodies the email_bounces endpoint answers with: the README's example, a
\* second well-formed one, one whose percentage does not parse, one that is
\* not JSON, one without members and one whose percentage is a JSON number.
BouncesBodies ==
    { Envelope(BouncesObj(414, 108, 0, 0, JStr(P0))),
      Envelope(BouncesObj(1, 2, 3, 4, JStr(P125))),
      Envelope(BouncesObj(5, 6, 7, 8, JStr(PBad))),
      JBad,
      JEmptyObj,
      Envelope(BouncesObj(9, 9, 9, 9, JNum(5))) }

SpamObj(e, r, s, p) ==
    JObj("emails" :> JNum(e) @@ "rejects" :> JNum(r) @@ "spams" :> JNum(s)
         @@ "spam_percent" :> p)

SpamBodies ==
    { Envelope(SpamObj(1, 2, 3, JStr(P125))),
      Envelope(SpamObj(7, 8, 9, JStr(PBad))),
      JBad,
      Envelope(JObj("rejects" :> JStr(<<"2">>) @@ SpamObj(1, 2, 3, JStr(P0)).f)) }

UnsubsObj(e, r, u, p) ==
    JObj("emails" :> JNum(e) @@ "rejects" :> JNum(r) @@ "unsubscribes" :> JNum(u)
         @@ "unsubscribe_percent" :> p)

UnsubsBodies ==
    { Envelope(UnsubsObj(1, 2, 3, JStr(P125))),
      Envelope(UnsubsObj(7, 8, 9, JStr(<<>>))),
      JArr(<<>>) }

CycleObj(e, u, r, m) ==
    JObj("cycle_start" :> JStr(<<"1970-01-01", " ", "00:00:00", "+00:00">>)
         @@ "cycle_end" :> e @@ "cycle_used" :> JNum(u)
         @@ "cycle_remaining" :> JNum(r) @@ "cycle_max" :> JNum(m))

\* cycle_end values: one hour after the epoch, one hour before it (written
\* with a zone offset), a day after it, and two that the layout rejects.
EndSoon == <<"1970-01-01", " ", "01:00:00", "+00:00">>

EndPast == <<"1970-01-01", " ", "00:00:00", "+01:00">>

EndFar == <<"1970-01-02", " ", "00:00:00", "-01:00">>

EndIso == <<"1970-01-02", "T", "00:00:00", "+00:00">>

CycleBodies ==
    { Envelope(CycleObj(JStr(EndSoon), 522, 478, 1000)),
      Envelope(CycleObj(JStr(EndPast), 1, 2, 3)),
      Envelope(CycleObj(JStr(EndFar), 4, 5, 9)),
      Envelope(CycleObj(JStr(EndIso), 6, 7, 13)),
      JBad,
      JEmptyObj }

HistoryFields ==
    <<"used", "bytecount", "avgsize", "bounces", "clicks", "opens", "rejects",
      "spam", "unsubscribes">>

\* An entry whose nine counters are base, base + 1, ..., base + 8.
HistoryEntryObj(addr, base) ==
    JObj([k \in {HistoryFields[i] : i \in 1..Len(HistoryFields)} |->
              JNum(base + (CHOOSE i \in 1..Len(HistoryFields) : HistoryFields[i] = k) - 1)]
         @@ "email_address" :> JStr(addr))

HistoryObj(entries) == JObj("history" :> JArr(entries) @@ "count" :> JNum(Len(entries)))

Alice == "alice@example.tld"

Bob == "bob@example.tld"

HistoryBodies ==
    { Envelope(HistoryObj(<<HistoryEntryObj(Alice, 10), HistoryEntryObj(Bob, 20)>>)),
      Envelope(HistoryObj(<<HistoryEntryObj(Bob, 30)>>)),
      Envelope(HistoryObj(<<HistoryEntryObj(Alice, 40), HistoryEntryObj(Alice, 50)>>)),
      Envelope(HistoryObj(<<>>)),
      JBad,
      JEmptyObj,
      Envelope(HistoryObj(<<HistoryEntryObj(Alice, 60), JNum(1)>>)) }

Bodies(c) ==
    CASE c = "cycle"   -> CycleBodies
      [] c = "bounces" -> BouncesBodies
      [] c = "history" -> HistoryBodies
      [] c = "spam"    -> SpamBodies
      [] c = "unsubs"  -> UnsubsBodies

\* What client.Do can answer collector c: each body with status 200, and with
\* status 500 an error page that is not JSON, or (for bounces) a body that
\* would be valid with status 200.
Responses(c) ==
    {[status |-> "200 OK", body |-> b] : b \in Bodies(c)}
    \cup {[status |-> "500 Internal Server Error", body |-> JBad]}
    \cup {[status |-> "500 Internal Server Error", body |-> b] :
              b \in IF c = "bounces"
                     THEN {Envelope(BouncesObj(414, 108, 0, 0, JStr(P0)))}
                     ELSE {}}

\* ------------------------------------------------- json.Unmarshal per type

\* json.Unmarshal(body, &apiResp) for EmailBouncesResponse.
UnmarshalBounces(body) ==
    LET data == Field(body, "data")
        id == decodeString(Field(body, "request_id"))
        em == decodeFloat(Field(data, "emails"))
        rj == decodeFloat(Field(data, "rejects"))
        sb == decodeFloat(Field(data, "softbounces"))
        hb == decodeFloat(Field(data, "hardbounces"))
        bp == decodeString(Field(data, "bounce_percent"))
    IN  [err |-> \/ body.t = "bad" \/ structErr(body) \/ structErr(data)
                 \/ id.err \/ em.err \/ rj.err \/ sb.err \/ hb.err \/ bp.err,
         Data |-> [Emails |-> em.val, Rejects |-> rj.val, SoftBounces |-> sb.val,
                   HardBounces |-> hb.val, BouncePercent |-> bp.val]]

\* json.Unmarshal(body, &apiResp) for EmailSpamResponse.
UnmarshalSpam(body) ==
    LET data == Field(body, "data")
        id == decodeString(Field(body, "request_id"))
        em == decodeFloat(Field(data, "emails"))
        rj == decodeFloat(Field(data, "rejects"))
        sp == decodeFloat(Field(data, "spams"))
        pc == decodeString(Field(data, "spam_percent"))
    IN  [err |-> \/ body.t = "bad" \/ structErr(body) \/ structErr(data)
                 \/ id.err \/ em.err \/ rj.err \/ sp.err \/ pc.err,
         Data |-> [Emails |-> em.val, Rejects |-> rj.val, Spams |-> sp.val,
                   SpamPercent |-> pc.val]]

\* json.Unmarshal(body, &apiResp) for EmailUnsubsResponse.
UnmarshalUnsubs(body) ==
    LET data == Field(body, "data")
        id == decodeString(Field(body, "request_id"))
        em == decodeFloat(Field(data, "emails"))
        rj == decodeFloat(Field(data, "rejects"))
        un == decodeFloat(Field(data, "unsubscribes"))
        pc == decodeString(Field(data, "unsubscribe_percent"))
    IN  [err |-> \/ body.t = "bad" \/ structErr(body) \/ structErr(data)
                 \/ id.err \/ em.err \/ rj.err \/ un.err \/ pc.err,
         Data |-> [Emails |-> em.val, Rejects |-> rj.val, Unsubscribes |-> un.val,
                   UnsubscribePercent |-> pc.val]]

\* json.Unmarshal(body, &apiResp) for EmailCycleResponse.
UnmarshalCycle(body) ==
    LET data == Field(body, "data")
        id == decodeString(Field(body, "request_id"))
        cs == decodeString(Field(data, "cycle_start"))
        ce == decodeString(Field(data, "cycle_end"))
        cu == decodeFloat(Field(data, "cycle_used"))
        cr == decodeFloat(Field(data, "cycle_remaining"))
        cm == decodeFloat(Field(data, "cycle_max"))
    IN  [err |-> \/ body.t = "bad" \/ structErr(body) \/ structErr(data)
                 \/ id.err \/ cs.err \/ ce.err \/ cu.err \/ cr.err \/ cm.err,
         Data |-> [CycleStart |-> cs.val, CycleEnd |-> ce.val, CycleUsed |-> cu.val,
                   CycleRemaining |-> cr.val, CycleMax |-> cm.val]]

\* Decoding one element of data.history into EmailHistoryEntry.
decodeEntry(v) ==
    LET num == [i \in 1..Len(HistoryFields) |-> decodeFloat(Field(v, HistoryFields[i]))]
        ad == decodeString(Field(v, "email_address"))
    IN  [err |-> structErr(v) \/ ad.err \/ \E i \in 1..Len(HistoryFields) : num[i].err,
         EmailAddress |-> ad.val,
         val |-> [k \in {HistoryFields[i] : i \in 1..Len(HistoryFields)} |->
                      num[CHOOSE i \in 1..Len(HistoryFields) : HistoryFields[i] = k].val]]

\* json.Unmarshal(body, &apiResp) for EmailHistoryResponse.
UnmarshalHistory(body) ==
    LET data == Field(body, "data")
        id == decodeString(Field(body, "request_id"))
        hist == Field(data, "history")
        cnt == decodeFloat(Field(data, "count"))
        elems == IF hist.t = "arr" THEN hist.a ELSE <<>>
        entries == [i \in 1..Len(elems) |-> decodeEntry(elems[i])]
    IN  [err |-> \/ body.t = "bad" \/ structErr(body) \/ structErr(data)
                 \/ id.err \/ cnt.err \/ hist.t \notin {"arr", "null"}
                 \/ \E i \in 1..Len(elems) : entries[i].err,
         History |-> entries]

\* ------------------------------------------------------------ gauge state

MetricNames == {HistoryFields[i] : i \in 1..Len(HistoryFields)}

\* The gauges each constructor creates; a new gauge reads 0 and a new
\* GaugeVec has no series.
NewGauges(c) ==
    CASE c = "cycle"   -> [used |-> 0, remaining |-> 0, max |-> 0, remainingSeconds |-> 0]
      [] c = "bounces" -> [emails |-> 0, rejects |-> 0, softBounces |-> 0,
                           hardBounces |-> 0, bouncePercent |-> Dec(0, 0)]
      [] c = "history" -> [k \in MetricNames |-> <<>>]
      [] c = "spam"    -> [emails |-> 0, rejects |-> 0, spams |-> 0,
                           spamPercent |-> Dec(0, 0)]
      [] c = "unsubs"  -> [emails |-> 0, rejects |-> 0, unsubscribes |-> 0,
                           unsubscribePercent |-> Dec(0, 0)]

\* A Collect() that sets the percentage although ParseFloat failed.
BouncesSet_IgnoresParseError(g, data) ==
    [emails |-> data.Emails,
     rejects |-> data.Rejects,
     softBounces |-> data.SoftBounces,
     hardBounces |-> data.HardBounces,
     bouncePercent |-> ParseFloat(data.BouncePercent).val]

\* A Collect() that gives SoftBounces to both bounce gauges.
BouncesSet_CopiedLine(g, data) ==
    LET percent == ParseFloat(data.BouncePercent)
    IN  [emails |-> data.Emails,
         rejects |-> data.Rejects,
         softBounces |-> data.SoftBounces,
         hardBounces |-> data.SoftBounces,
         bouncePercent |-> IF percent.err THEN g.bouncePercent ELSE percent.val]

\* EmailBouncesCollector.Collect from `data := apiResp.Data` to the last Set.
BouncesSet(g, data) ==
    LET percent == ParseFloat(data.BouncePercent)
    IN  [emails |-> data.Emails,
         rejects |-> data.Rejects,
         softBounces |-> data.SoftBounces,
         hardBounces |-> data.HardBounces,
         bouncePercent |-> IF percent.err THEN g.bouncePercent ELSE percent.val]

\* EmailSpamCollector.Collect from `data := apiResp.Data` to the last Set.
SpamSet(g, data) ==
    LET percent == ParseFloat(data.SpamPercent)
    IN  [emails |-> data.Emails,
         rejects |-> data.Rejects,
         spams |-> data.Spams,
         spamPercent |-> IF percent.err THEN g.spamPercent ELSE percent.val]

\* EmailUnsubsCollector.Collect from `data := apiResp.Data` to the last Set.
UnsubsSet(g, data) ==
    LET percent == ParseFloat(data.UnsubscribePercent)
    IN  [emails |-> data.Emails,
         rejects |-> data.Rejects,
         unsubscribes |-> data.Unsubscribes,
         unsubscribePercent |-> IF percent.err THEN g.unsubscribePercent
                                ELSE percent.val]

\* time.Until(endTime).Seconds() with the clock reading t.
timeUntil(endTime, t) == endTime - t

\* A Collect() that sets remaining_seconds although time.Parse failed.
CycleSet_IgnoresParseError(g, data, t) ==
    [used |-> data.CycleUsed,
     remaining |-> data.CycleRemaining,
     max |-> data.CycleMax,
     remainingSeconds |-> timeUntil(timeParse(data.CycleEnd).val, t)]

\* EmailCycleCollector.Collect from `data := apiResp.Data` to the last Set,
\* with the clock reading t.
CycleSet(g, data, t) ==
    LET endTime == timeParse(data.CycleEnd)
    IN  [used |-> data.CycleUsed,
         remaining |-> data.CycleRemaining,
         max |-> data.CycleMax,
         remainingSeconds |-> IF endTime.err THEN g.remainingSeconds
                              ELSE timeUntil(endTime.val, t)]

\* A Reset loop that deletes nothing.
HistoryReset_KeepsSeries(m) == m

\* metric.Reset() on every GaugeVec of the history collector.
HistoryReset(m) == [k \in MetricNames |-> <<>>]

\* A loop iteration without the Set on the unsubscribes vector.
HistorySetEntry_SkipsUnsubscribes(m, entry) ==
    [k \in MetricNames |->
        IF k = "unsubscribes" THEN m[k]
        ELSE (entry.EmailAddress :> entry.val[k]) @@ m[k]]

\* A loop iteration that leaves a series that exists as it is.
HistorySetEntry_KeepsFirst(m, entry) ==
    [k \in MetricNames |-> m[k] @@ (entry.EmailAddress :> entry.val[k])]

\* The nine With(labels).Set(...) of one loop iteration.
HistorySetEntry(m, entry) ==
    [k \in MetricNames |-> (entry.EmailAddress :> entry.val[k]) @@ m[k]]

RECURSIVE HistoryLoop(_, _, _)
HistoryLoop(m, entries, i) ==
    IF i > Len(entries) THEN m
    ELSE HistoryLoop(HistorySetEntry(m, entries[i]), entries, i + 1)

\* EmailHistoryCollector.Collect from the Reset loop to the end of the entry
\* loop.
HistorySet(m, entries) == HistoryLoop(HistoryReset(m), entries, 1)

\* A Collect() that goes on to the Set calls after json.Unmarshal failed.
ParseAndSet_NoReturnOnError(c, g, body, t) ==
    CASE c = "cycle" ->
            LET r == UnmarshalCycle(body)
            IN  [err |-> r.err, g |-> CycleSet(g, r.Data, t)]
      [] c = "bounces" ->
            LET r == UnmarshalBounces(body)
            IN  [err |-> r.err, g |-> BouncesSet(g, r.Data)]
      [] c = "history" ->
            LET r == UnmarshalHistory(body)
            IN  [err |-> r.err, g |-> HistoryReset(g)]
      [] c = "spam" ->
            LET r == UnmarshalSpam(body)
            IN  [err |-> r.err, g |-> SpamSet(g, r.Data)]
      [] c = "unsubs" ->
            LET r == UnmarshalUnsubs(body)
            IN  [err |-> r.err, g |-> UnsubsSet(g, r.Data)]

\* Collect() of collector c between the return of doPostRequest with a body
\* and the first Collect(ch): err tells that json.Unmarshal failed and
\* Collect returned; g is the gauge state it leaves.
ParseAndSet(c, g, body, t) ==
    CASE c = "cycle" ->
            LET r == UnmarshalCycle(body)
            IN  [err |-> r.err, g |-> IF r.err THEN g ELSE CycleSet(g, r.Data, t)]
      [] c = "bounces" ->
            LET r == UnmarshalBounces(body)
            IN  [err |-> r.err, g |-> IF r.err THEN g ELSE BouncesSet(g, r.Data)]
      [] c = "history" ->
            LET r == UnmarshalHistory(body)
            IN  [err |-> r.err, g |-> IF r.err THEN g ELSE HistorySet(g, r.History)]
      [] c = "spam" ->
            LET r == UnmarshalSpam(body)
            IN  [err |-> r.err, g |-> IF r.err THEN g ELSE SpamSet(g, r.Data)]
      [] c = "unsubs" ->
            LET r == UnmarshalUnsubs(body)
            IN  [err |-> r.err, g |-> IF r.err THEN g ELSE UnsubsSet(g, r.Data)]

\* Whether Collect() of c reads the clock for this body (time.Until runs).
ReadsClock(c, body) ==
    /\ c = "cycle"
    /\ ~UnmarshalCycle(body).err
    /\ ~timeParse(UnmarshalCycle(body).Data.CycleEnd).err

\* ------------------------------------------------------- metric names

\* A metric name is the sequence of its words; the words are joined with "_".
\* A namespace without the collector's part.
Namespace_Shared(c) == <<"smtp2go", "email">>

\* The namespace each constructor passes to its gauges.
Namespace(c) ==
    CASE c = "cycle"   -> <<"smtp2go", "email", "cycle">>
      [] c = "bounces" -> <<"smtp2go", "email", "bounces">>
      [] c = "history" -> <<"smtp2go", "email", "history">>
      [] c = "spam"    -> <<"smtp2go", "email", "spam">>
      [] c = "unsubs"  -> <<"smtp2go", "email", "unsubs">>

\* The Name of every gauge a constructor creates, in the order of the
\* collector's fields.
GaugeNames(c) ==
    CASE c = "cycle"   -> <<<<"used">>, <<"remaining">>, <<"max">>, <<"remaining", "seconds">>>>
      [] c = "bounces" -> <<<<"emails">>, <<"rejects">>, <<"softbounces">>,
                            <<"hardbounces">>, <<"bounce", "percent">>>>
      [] c = "history" -> [i \in 1..Len(HistoryFields) |-> <<HistoryFields[i]>>]
      [] c = "spam"    -> <<<<"emails">>, <<"rejects">>, <<"spams">>, <<"spam", "percent">>>>
      [] c = "unsubs"  -> <<<<"emails">>, <<"rejects">>, <<"unsubscribes">>,
                            <<"unsubscribe", "percent">>>>

\* prometheus.BuildFQName(namespace, "", name): namespace + "_" + name.
BuildFQName(namespace, name) == namespace \o name

\* The descriptors of collector c: one per gauge, under its fully qualified
\* name.
Descs(c) ==
    {[collector |-> c, field |-> i, fqName |-> BuildFQName(Namespace(c), GaugeNames(c)[i])] :
        i \in 1..Len(GaugeNames(c))}

\* The order in which main() registers the collectors.
RegisterOrder == <<"cycle", "bounces", "history", "spam", "unsubs">>

\* prometheus.MustRegister(c) on the registry reg: it panics when a fully
\* qualified name of c is already registered.
MustRegister(reg, c) ==
    IF \E d \in Descs(c), e \in reg.descs \cup Descs(c) : d # e /\ d.fqName = e.fqName
    THEN [panic |-> TRUE, descs |-> reg.descs]
    ELSE [panic |-> reg.panic, descs |-> reg.descs \cup Descs(c)]

\* The five MustRegister calls of main(), up to the first that panics.
RECURSIVE RegisterAll(_, _)
RegisterAll(reg, i) ==
    IF i > Len(RegisterOrder) \/ reg.panic THEN reg
    ELSE RegisterAll(MustRegister(reg, RegisterOrder[i]), i + 1)

EmptyRegistry == [panic |-> FALSE, descs |-> {}]

\* The collectors the registry gathers from.
RegisteredCollectors(descs) == {d.collector : d \in descs}

\* ------------------------------------------------------------------ state

VARIABLES
    phase,      \* "init", "serving", "exited" (log.Fatal) or "crashed" (panic)
    apiURL,     \* *apiURL of main, then the base URL of every collector
    apiKey,     \* *apiKey of main
    gauges,     \* gauges[c]: the gauge values of collector c
    mutex,      \* mutex[c]: c.mutex is locked
    now,        \* the last clock reading, in seconds since process start
    calls,      \* Collect() calls started so far
    pc,         \* pc[s]: where scraper s is in Collect()
    col,        \* col[s]: the collector s is calling
    pre,        \* pre[s]: gauges of col[s] when s acquired the mutex
    resp,       \* resp[s]: what client.Do gave s
    readAt,     \* readAt[s]: the clock reading s used
    result,     \* result[s]: how the last Collect() of s returned
    post,       \* post[s]: gauges of col[s] when s returned
    emitted,    \* emitted[s]: what the last Collect() of s sent on ch
    flagNames,  \* the flag names on the command line
    registry,   \* the descriptors registered with the default registry
    locks,      \* locks[c]: Lock() calls of c.mutex that have returned
    requests,   \* requests[c]: the requests Collect() of c handed to client.Do
    waited,     \* waited[s]: Lock() of the call s is in found the mutex held
    debug,      \* *debug of main, then the debug field of every collector
    logged,     \* logged[s]: the raw response the call of s logged
    described   \* what the last Describe() call sent, and on which collector

vars ==
    <<phase, apiURL, apiKey, gauges, mutex, now, calls, pc, col, pre, resp, readAt,
      result, post, emitted, flagNames, registry, locks, requests, waited,
      debug, logged, described>>

config == <<phase, apiURL, apiKey, flagNames, registry, debug>>

NoDescs == [collector |-> "none"]

NoResp == [kind |-> "none"]

NoMetrics == [sent |-> FALSE]

Sent(g) == [sent |-> TRUE, metrics |-> g]

\* The state after the flags are defined, with one of the command lines
\* given and -debug given or not.
SetupFrom(lines, dbg) ==
    /\ phase = "init"
    /\ \E cl \in lines :
          /\ flagNames = cl.flags
          /\ apiURL = cl.url
          /\ apiKey = cl.key
    /\ registry = {}
    /\ locks = [c \in Collectors |-> 0]
    /\ requests = [c \in Collectors |-> <<>>]
    /\ waited = [s \in Scrapers |-> FALSE]
    /\ gauges = [c \in Collectors |-> NewGauges(c)]
    /\ mutex = [c \in Collectors |-> FALSE]
    /\ now = 0
    /\ calls = 0
    /\ pc = [s \in Scrapers |-> "idle"]
    /\ col = [s \in Scrapers |-> "cycle"]
    /\ pre = [s \in Scrapers |-> <<>>]
    /\ resp = [s \in Scrapers |-> NoResp]
    /\ readAt = [s \in Scrapers |-> 0]
    /\ result = [s \in Scrapers |-> "none"]
    /\ post = [s \in Scrapers |-> <<>>]
    /\ emitted = [s \in Scrapers |-> NoMetrics]
    /\ debug = dbg
    /\ logged = [s \in Scrapers |-> <<>>]
    /\ described = NoDescs

\* The state after the flags are defined, with the command line given and
\* -debug given or not.
Setup(dbg) == SetupFrom(CommandLines, dbg)

\* The process started without -debug.
Init == Setup(FALSE)

\* The process started with or without -debug.
ProbeInit == \E dbg \in BOOLEAN : Setup(dbg)

\* ---------------------------------------------------------------- actions

\* A main() that checks only the base URL before it goes on.
Start_NoKeyCheck ==
    /\ phase = "init"
    /\ IF flagParseFails(flagNames) \/ apiURL = <<>>
       THEN /\ phase' = "exited"
            /\ UNCHANGED <<apiURL, registry>>
       ELSE /\ apiURL' = TrimRight(apiURL)
            /\ registry' = RegisterAll(EmptyRegistry, 1).descs
            /\ phase' = IF RegisterAll(EmptyRegistry, 1).panic THEN "crashed" ELSE "serving"
    /\ UNCHANGED <<apiKey, gauges, mutex, now, calls, pc, col, pre, resp, readAt,
                   result, post, emitted, flagNames, locks, requests, waited,
                   debug, logged, described>>

\* main() up to http.ListenAndServe: flag.Parse, the check of the two
\* options (log.Fatal), the trim of the base URL, the five constructors and
\* the five MustRegister calls.
Start ==
    /\ phase = "init"
    /\ IF flagParseFails(flagNames) \/ apiURL = <<>> \/ apiKey = ""
       THEN /\ phase' = "exited"
            /\ UNCHANGED <<apiURL, registry>>
       ELSE /\ apiURL' = TrimRight(apiURL)
            /\ registry' = RegisterAll(EmptyRegistry, 1).descs
            /\ phase' = IF RegisterAll(EmptyRegistry, 1).panic THEN "crashed" ELSE "serving"
    /\ UNCHANGED <<apiKey, gauges, mutex, now, calls, pc, col, pre, resp, readAt,
                   result, post, emitted, flagNames, locks, requests, waited,
                   debug, logged, described>>

\* The registry calls Collect() of collector c on goroutine s, which reaches
\* c.mutex.Lock().
CollectCall(s, c) ==
    /\ phase = "serving"
    /\ c \in RegisteredCollectors(registry)
    /\ pc[s] = "idle"
    /\ calls < MaxCalls
    /\ calls' = calls + 1
    /\ pc' = [pc EXCEPT ![s] = "lock"]
    /\ col' = [col EXCEPT ![s] = c]
    /\ pre' = [pre EXCEPT ![s] = <<>>]
    /\ resp' = [resp EXCEPT ![s] = NoResp]
    /\ readAt' = [readAt EXCEPT ![s] = 0]
    /\ result' = [result EXCEPT ![s] = "none"]
    /\ post' = [post EXCEPT ![s] = <<>>]
    /\ emitted' = [emitted EXCEPT ![s] = NoMetrics]
    /\ waited' = [waited EXCEPT ![s] = mutex[c]]
    /\ logged' = [logged EXCEPT ![s] = <<>>]
    /\ UNCHANGED <<config, gauges, mutex, now, locks, requests, described>>

\* A Lock() that never waits.
MutexFree_NeverWaits(c) == TRUE

\* One mutex shared by all collectors.
MutexFree_SharedMutex(c) == \A d \in Collectors : ~mutex[d]

\* sync.Mutex: Lock() returns only when the mutex is unlocked.
MutexFree(c) == ~mutex[c]

\* c.mutex.Lock() returns and doPostRequest runs up to client.Do(req). With a
\* URL that http.NewRequest rejects req is nil, req.Header.Set dereferences
\* it, and the panic in the collecting goroutine ends the process.
CollectLock(s) ==
    /\ phase = "serving"
    /\ pc[s] = "lock"
    /\ MutexFree(col[s])
    /\ pre' = [pre EXCEPT ![s] = gauges[col[s]]]
    /\ locks' = [locks EXCEPT ![col[s]] = @ + 1]
    /\ IF NewRequestFails(apiURL \o Endpoint(col[s]))
       THEN /\ phase' = "crashed"
            /\ pc' = [pc EXCEPT ![s] = "panic"]
            /\ mutex' = mutex
            /\ requests' = requests
            /\ waited' = waited
       ELSE /\ phase' = phase
            /\ pc' = [pc EXCEPT ![s] = "await"]
            /\ mutex' = [mutex EXCEPT ![col[s]] = TRUE]
            /\ requests' = [requests EXCEPT ![col[s]] =
                                Append(@, PostRequest(apiURL, Endpoint(col[s]), apiKey))]
            /\ waited' = [o \in Scrapers |->
                              IF o # s /\ pc[o] = "lock" /\ col[o] = col[s]
                              THEN TRUE ELSE waited[o]]
    /\ UNCHANGED <<apiURL, apiKey, flagNames, registry, debug, logged, described,
                   gauges, now, calls, col, resp,
                   readAt, result, post, emitted>>

\* A return that leaves the mutex locked.
Return_NoUnlock(s, how, out) ==
    /\ pc' = [pc EXCEPT ![s] = "idle"]
    /\ mutex' = mutex
    /\ result' = [result EXCEPT ![s] = how]
    /\ emitted' = [emitted EXCEPT ![s] = out]
    /\ post' = [post EXCEPT ![s] = gauges'[col[s]]]
    /\ waited' = [waited EXCEPT ![s] = FALSE]

\* The deferred c.mutex.Unlock() and the return of Collect().
Return(s, how, out) ==
    /\ pc' = [pc EXCEPT ![s] = "idle"]
    /\ mutex' = [mutex EXCEPT ![col[s]] = FALSE]
    /\ result' = [result EXCEPT ![s] = how]
    /\ emitted' = [emitted EXCEPT ![s] = out]
    /\ post' = [post EXCEPT ![s] = gauges'[col[s]]]
    /\ waited' = [waited EXCEPT ![s] = FALSE]

\* A Collect() that falls through to the Collect(ch) calls on a fetch error.
FetchError_EmitsStale(s) ==
    /\ phase = "serving"
    /\ pc[s] = "await"
    /\ resp' = [resp EXCEPT ![s] = [kind |-> "error"]]
    /\ gauges' = gauges
    /\ Return(s, "fetch_error", Sent(gauges[col[s]]))
    /\ UNCHANGED <<config, now, calls, col, pre, readAt, locks, requests, logged, described>>

\* client.Do(req) fails: doPostRequest logs and returns the error, Collect()
\* returns.
FetchError(s) ==
    /\ phase = "serving"
    /\ pc[s] = "await"
    /\ resp' = [resp EXCEPT ![s] = [kind |-> "error"]]
    /\ gauges' = gauges
    /\ Return(s, "fetch_error", NoMetrics)
    /\ UNCHANGED <<config, now, calls, col, pre, readAt, locks, requests, logged, described>>

\* Clock readings not before the last one.
ClockReadings == {now + k * TickSeconds : k \in 0..MaxTicks} \cap 0..(MaxTicks * TickSeconds)

\* A doPostRequest that returns an error for every status other than 200.
FetchBody_StatusChecked(s, status, body) ==
    /\ [status |-> status, body |-> body] \in Responses(col[s])
    /\ phase = "serving"
    /\ pc[s] = "await"
    /\ HasScheme(apiURL \o Endpoint(col[s]))
    /\ resp' = [resp EXCEPT ![s] = [kind |-> "body", status |-> status, body |-> body]]
    /\ \E t \in ClockReadings :
          /\ (~ReadsClock(col[s], body) \/ status # "200 OK") => t = now
          /\ now' = t
          /\ readAt' = [readAt EXCEPT ![s] = t]
          /\ LET r == ParseAndSet(col[s], gauges[col[s]],
                                  doPostRequestResult(body, debug).body, t)
             IN  IF status # "200 OK"
                 THEN /\ gauges' = gauges
                      /\ Return(s, "fetch_error", NoMetrics)
                 ELSE /\ gauges' = [gauges EXCEPT ![col[s]] = r.g]
                      /\ IF r.err
                         THEN Return(s, "parse_error", NoMetrics)
                         ELSE /\ pc' = [pc EXCEPT ![s] = "emit"]
                              /\ UNCHANGED <<mutex, result, post, emitted, waited>>
    /\ logged' = [logged EXCEPT ![s] = doPostRequestResult(body, debug).logged]
    /\ UNCHANGED <<config, calls, col, pre, locks, requests, described>>

\* client.Do(req) answers with a status and a body: doPostRequest returns the
\* body, Collect() unmarshals it and either returns on the error or sets its
\* gauges.
FetchBody(s, status, body) ==
    /\ [status |-> status, body |-> body] \in Responses(col[s])
    /\ phase = "serving"
    /\ pc[s] = "await"
    /\ HasScheme(apiURL \o Endpoint(col[s]))
    /\ resp' = [resp EXCEPT ![s] = [kind |-> "body", status |-> status, body |-> body]]
    /\ \E t \in ClockReadings :
          /\ (~ReadsClock(col[s], body)) => t = now
          /\ now' = t
          /\ readAt' = [readAt EXCEPT ![s] = t]
          /\ LET r == ParseAndSet(col[s], gauges[col[s]],
                                  doPostRequestResult(body, debug).body, t)
             IN  /\ gauges' = [gauges EXCEPT ![col[s]] = r.g]
                 /\ IF r.err
                    THEN Return(s, "parse_error", NoMetrics)
                    ELSE /\ pc' = [pc EXCEPT ![s] = "emit"]
                         /\ UNCHANGED <<mutex, result, post, emitted, waited>>
    /\ logged' = [logged EXCEPT ![s] = doPostRequestResult(body, debug).logged]
    /\ UNCHANGED <<config, calls, col, pre, locks, requests, described>>

\* The Collect(ch) calls at the end of Collect(): every gauge of the
\* collector is sent on ch, then Collect() returns.
Emit(s) ==
    /\ phase = "serving"
    /\ pc[s] = "emit"
    /\ gauges' = gauges
    /\ Return(s, "ok", Sent(gauges[col[s]]))
    /\ UNCHANGED <<config, now, calls, col, pre, resp, readAt, locks, requests, logged,
                   described>>

Next ==
    \/ Start
    \/ \E s \in Scrapers, c \in Collectors : CollectCall(s, c)
    \/ \E s \in Scrapers : CollectLock(s)
    \/ \E s \in Scrapers : FetchError(s)
    \/ \E s \in Scrapers :
          \E r \in Responses(col[s]) : FetchBody(s, r.status, r.body)
    \/ \E s \in Scrapers : Emit(s)

Spec == Init /\ [][Next]_vars

\* The goroutine that runs the Collect() calls of the scrape, one call after
\* the other (overlapping calls are those of Next).
Gatherer == CHOOSE s \in Scrapers : TRUE

\* One scrape of /metrics: the registry calls Collect() of every registered
\* collector once, on goroutine s for collector c.
GatherCall(s, c) ==
    /\ phase = "serving"
    /\ c \in RegisteredCollectors(registry)
    /\ pc[s] = "idle"
    /\ locks[c] = 0
    /\ \A o \in Scrapers : pc[o] = "idle" \/ col[o] # c
    /\ calls' = calls + 1
    /\ pc' = [pc EXCEPT ![s] = "lock"]
    /\ col' = [col EXCEPT ![s] = c]
    /\ pre' = [pre EXCEPT ![s] = <<>>]
    /\ resp' = [resp EXCEPT ![s] = NoResp]
    /\ readAt' = [readAt EXCEPT ![s] = 0]
    /\ result' = [result EXCEPT ![s] = "none"]
    /\ post' = [post EXCEPT ![s] = <<>>]
    /\ emitted' = [emitted EXCEPT ![s] = NoMetrics]
    /\ waited' = [waited EXCEPT ![s] = mutex[c]]
    /\ logged' = [logged EXCEPT ![s] = <<>>]
    /\ UNCHANGED <<config, gauges, mutex, now, locks, requests, described>>

ScrapeNext ==
    \/ Start
    \/ \E c \in Collectors : GatherCall(Gatherer, c)
    \/ \E s \in Scrapers : CollectLock(s)
    \/ \E s \in Scrapers : FetchError(s)
    \/ \E s \in Scrapers :
          \E r \in Responses(col[s]) : FetchBody(s, r.status, r.body)
    \/ \E s \in Scrapers : Emit(s)

\* The process from its start through one scrape of all collectors.
ScrapeSpec == Init /\ [][ScrapeNext]_vars

\* A Describe() that takes the collector's mutex.
Describe_TakesMutex(c) ==
    /\ phase = "serving"
    /\ MutexFree(c)
    /\ described' = [collector |-> c, descs |-> Descs(c),
                     during |-> \E s \in Scrapers : pc[s] \in {"await", "emit"} /\ col[s] = c]
    /\ UNCHANGED <<config, gauges, mutex, now, calls, pc, col, pre, resp, readAt, result,
                   post, emitted, locks, requests, waited, logged>>

\* Describe() of collector c: the Describe of each of its gauges sends the
\* gauge's descriptor. It is recorded whether a Collect() call on c was
\* between Lock() and its return at that moment.
Describe(c) ==
    /\ phase = "serving"
    /\ described' = [collector |-> c, descs |-> Descs(c),
                     during |-> \E s \in Scrapers : pc[s] \in {"await", "emit"} /\ col[s] = c]
    /\ UNCHANGED <<config, gauges, mutex, now, calls, pc, col, pre, resp, readAt, result,
                   post, emitted, locks, requests, waited, logged>>

\* A Collect() call in a run that probes Describe() or -debug.
ProbeCall(s, c) ==
    /\ phase = "serving"
    /\ c \in RegisteredCollectors(registry)
    /\ pc[s] = "idle"
    /\ calls < MaxProbeCalls
    /\ calls' = calls + 1
    /\ pc' = [pc EXCEPT ![s] = "lock"]
    /\ col' = [col EXCEPT ![s] = c]
    /\ pre' = [pre EXCEPT ![s] = <<>>]
    /\ resp' = [resp EXCEPT ![s] = NoResp]
    /\ readAt' = [readAt EXCEPT ![s] = 0]
    /\ result' = [result EXCEPT ![s] = "none"]
    /\ post' = [post EXCEPT ![s] = <<>>]
    /\ emitted' = [emitted EXCEPT ![s] = NoMetrics]
    /\ waited' = [waited EXCEPT ![s] = mutex[c]]
    /\ logged' = [logged EXCEPT ![s] = <<>>]
    /\ UNCHANGED <<config, gauges, mutex, now, locks, requests, described>>

ProbeNext ==
    \/ Start
    \/ \E s \in Scrapers, c \in Collectors : ProbeCall(s, c)
    \/ \E s \in Scrapers : CollectLock(s)
    \/ \E s \in Scrapers : FetchError(s)
    \/ \E s \in Scrapers :
          \E r \in Responses(col[s]) : FetchBody(s, r.status, r.body)
    \/ \E s \in Scrapers : Emit(s)

\* The process with -debug given or not, and a few Collect() calls.
ProbeSpec == ProbeInit /\ [][ProbeNext]_vars

DescribeNext ==
    \/ ProbeNext
    \/ \E c \in Collectors : Describe(c)

\* The process with a few Collect() calls and Describe() called at any
\* moment after registration.
DescribeSpec == Init /\ [][DescribeNext]_vars

\* The scheduling the program runs under: a Lock() that can return again and
\* again does return (sync.Mutex hands the mutex to a starving waiter), every
\* request handed to client.Do completes with a response or an error, and a
\* goroutine that can run its Collect(ch) calls does.
Fairness ==
    \A s \in Scrapers :
        /\ SF_vars(CollectLock(s))
        /\ WF_vars(FetchError(s)
                   \/ \E r \in Responses(col[s]) : FetchBody(s, r.status, r.body))
        /\ WF_vars(Emit(s))

FairSpec == Init /\ [][Next]_vars /\ Fairness

\* ------------------------------------------- the single-collector variant

\* The flags main() of the single-collector program defines.
ApiDefinedFlags == {"api-url", "api-key", "listen-address", "debug"}

\* Command lines tried at the start of the single-collector program.
ApiCommandLines ==
    {[flags |-> {"api-url", "api-key"}, url |-> u, key |-> k] : u \in FlagURLs, k \in FlagKeys}
    \cup {[flags |-> {"apiURL", "apiKey"}, url |-> ReadmeURL, key |-> ReadmeKey]}

\* The trim of main(): one trailing "/" is removed.
TrimOneSlash(s) ==
    IF Len(s) > 0 /\ s[Len(s)] = "/" THEN SubSeq(s, 1, Len(s) - 1) ELSE s

\* The Name of the four gauges of NewApiCollector, in the order of its fields.
ApiGaugeNames == <<<<"max">>, <<"remaining">>, <<"used">>, <<"remaining", "seconds">>>>

\* The descriptors of the ApiCollector built with namespace "email_cycle".
ApiDescs ==
    {[collector |-> "cycle", field |-> i,
      fqName |-> BuildFQName(<<"smtp2go", "email", "cycle">>, ApiGaugeNames[i])] :
        i \in 1..Len(ApiGaugeNames)}

\* json.Unmarshal(body, &apiResp) for ApiResponse: MetricsData has the
\* members and types of the email_cycle data object.
UnmarshalApiResponse(body) == UnmarshalCycle(body)

\* collectEmailCycleMetrics from `data := apiResp.Data` to the last Set with
\* the clock reading t: the three numeric gauges are set, then a cycle_end
\* that does not parse makes the function return (err), otherwise the
\* difference is clamped at 0 and set.
ApiCycleSet(g, data, t) ==
    LET endTime == timeParse(data.CycleEnd)
        diff == endTime.val - t
    IN  [err |-> endTime.err,
         g |-> [used |-> data.CycleUsed,
                remaining |-> data.CycleRemaining,
                max |-> data.CycleMax,
                remainingSeconds |-> IF endTime.err THEN g.remainingSeconds
                                     ELSE IF diff < 0 THEN 0 ELSE diff]]

\* The single-collector program started without -debug.
ApiInit == SetupFrom(ApiCommandLines, FALSE)

\* main() of the single-collector program up to http.ListenAndServe:
\* flag.Parse, the trim of one trailing slash, the check of the two options
\* (log.Fatal), the constructor and MustRegister.
ApiStart ==
    /\ phase = "init"
    /\ IF \/ ~(flagNames \subseteq ApiDefinedFlags)
          \/ TrimOneSlash(apiURL) = <<>>
          \/ apiKey = ""
       THEN /\ phase' = "exited"
            /\ UNCHANGED <<apiURL, registry>>
       ELSE /\ apiURL' = TrimOneSlash(apiURL)
            /\ registry' = ApiDescs
            /\ phase' = "serving"
    /\ UNCHANGED <<apiKey, gauges, mutex, now, calls, pc, col, pre, resp, readAt,
                   result, post, emitted, flagNames, locks, requests, waited,
                   debug, logged, described>>

\* The registry calls ApiCollector.Collect() on goroutine s, which reaches
\* c.mutex.Lock().
ApiCollectCall(s) == CollectCall(s, "cycle")

\* c.mutex.Lock() returns and collectEmailCycleMetrics runs up to
\* client.Do(req). The error of http.NewRequest is checked: the function logs
\* it and returns, and the deferred Unlock runs.
ApiCollectLock(s) ==
    /\ phase = "serving"
    /\ pc[s] = "lock"
    /\ MutexFree(col[s])
    /\ pre' = [pre EXCEPT ![s] = gauges[col[s]]]
    /\ locks' = [locks EXCEPT ![col[s]] = @ + 1]
    /\ gauges' = gauges
    /\ IF NewRequestFails(apiURL \o <<"/", "stats", "/", "email_cycle">>)
       THEN /\ Return(s, "request_error", NoMetrics)
            /\ requests' = requests
       ELSE /\ pc' = [pc EXCEPT ![s] = "await"]
            /\ mutex' = [mutex EXCEPT ![col[s]] = TRUE]
            /\ requests' = [requests EXCEPT ![col[s]] =
                                Append(@, PostRequest(apiURL,
                                                      <<"/", "stats", "/", "email_cycle">>,
                                                      apiKey))]
            /\ waited' = [o \in Scrapers |->
                              IF o # s /\ pc[o] = "lock" /\ col[o] = col[s]
                              THEN TRUE ELSE waited[o]]
            /\ UNCHANGED <<result, post, emitted>>
    /\ UNCHANGED <<config, now, calls, col, resp, readAt, logged, described>>

\* client.Do(req) fails: collectEmailCycleMetrics logs the error and returns.
ApiFetchError(s) == FetchError(s)

\* client.Do(req) answers with a status and a body: collectEmailCycleMetrics
\* reads the body, logs it under debug, unmarshals it and returns on the
\* error; else it sets max, remaining and used, returns when cycle_end does
\* not parse, and otherwise sets remaining_seconds and sends the four gauges
\* on ch.
ApiFetchBody(s, status, body) ==
    /\ [status |-> status, body |-> body] \in Responses("cycle")
    /\ phase = "serving"
    /\ pc[s] = "await"
    /\ HasScheme(apiURL \o <<"/", "stats", "/", "email_cycle">>)
    /\ resp' = [resp EXCEPT ![s] = [kind |-> "body", status |-> status, body |-> body]]
    /\ logged' = [logged EXCEPT ![s] = IF debug THEN <<body>> ELSE <<>>]
    /\ \E t \in ClockReadings :
          /\ (~ReadsClock("cycle", body)) => t = now
          /\ now' = t
          /\ readAt' = [readAt EXCEPT ![s] = t]
          /\ LET r == UnmarshalApiResponse(body)
                 set == ApiCycleSet(gauges[col[s]], r.Data, t)
             IN  IF r.err
                 THEN /\ gauges' = gauges
                      /\ Return(s, "parse_error", NoMetrics)
                 ELSE /\ gauges' = [gauges EXCEPT ![col[s]] = set.g]
                      /\ IF set.err
                         THEN Return(s, "cycle_end_error", NoMetrics)
                         ELSE Return(s, "ok", Sent(set.g))
    /\ UNCHANGED <<config, calls, col, pre, locks, requests, described>>

ApiNext ==
    \/ ApiStart
    \/ \E s \in Scrapers : ApiCollectCall(s)
    \/ \E s \in Scrapers : ApiCollectLock(s)
    \/ \E s \in Scrapers : ApiFetchError(s)
    \/ \E s \in Scrapers :
          \E r \in Responses("cycle") : ApiFetchBody(s, r.status, r.body)

\* The single-collector program: its start and its Collect() calls.
ApiSpec == ApiInit /\ [][ApiNext]_vars

\* ----------------------------------------------------------------- claims

\* Scraper s is between acquiring the mutex of col[s] and returning.
Holding(s) == pc[s] \in {"await", "emit"}

\* Scraper s has returned from a Collect() call.
Returned(s) == pc[s] = "idle" /\ result[s] # "none"

\* C1: at most one Collect() call per collector is between acquiring the
\* collector's mutex and returning, so no two upstream fetches of one
\* collector are in flight together.
C1_OneCollectPerCollector ==
    \A s1, s2 \in Scrapers :
        (s1 # s2 /\ Holding(s1) /\ Holding(s2)) => col[s1] # col[s2]

\* C1 witness: one call waits for its response while a second call on the
\* same collector is blocked in Lock().
C1_Witness ==
    \E s1, s2 \in Scrapers :
        /\ s1 # s2
        /\ col[s1] = col[s2]
        /\ pc[s1] = "await"
        /\ pc[s2] = "lock"

\* C2: Collect() never panics and never ends the process, whatever the base
\* URL and whatever the upstream answers.
C2_CollectNeverPanics == phase # "crashed"

\* C3: the remaining_seconds gauge is never negative; a cycle_end in the past
\* gives exactly 0.
C3_RemainingSecondsNotNegative == gauges["cycle"].remainingSeconds >= 0

\* The email addresses a history response lists.
ListedAddresses(body) ==
    LET hist == Field(Field(body, "data"), "history")
    IN  IF hist.t = "arr"
        THEN {Field(hist.a[i], "email_address").s : i \in 1..Len(hist.a)}
        ELSE {}

\* C4: after a successful history Collect() on a response listing the address
\* set S, every history gauge vector holds, and emits, exactly the label
\* values S.
C4_HistoryLabelsAreLatestResponse ==
    \A s \in Scrapers :
        (Returned(s) /\ col[s] = "history" /\ result[s] = "ok") =>
            \A k \in MetricNames :
                /\ DOMAIN post[s][k] = ListedAddresses(resp[s].body)
                /\ DOMAIN emitted[s].metrics[k] = ListedAddresses(resp[s].body)

\* C4 witness: a successful history scrape whose response no longer lists an
\* address that the gauges held before it.
C4_Witness ==
    \E s \in Scrapers :
        /\ Returned(s) /\ col[s] = "history" /\ result[s] = "ok"
        /\ ListedAddresses(resp[s].body) # {}
        /\ \E a \in DOMAIN pre[s]["used"] : a \notin ListedAddresses(resp[s].body)

\* Scraper s got a body that is not well-formed JSON.
GotMalformed(s) == resp[s].kind = "body" /\ resp[s].body.t = "bad"

\* C5: when the body is not well-formed JSON, Collect() returns without a
\* panic and leaves every gauge value and label value as it was.
C5_MalformedJsonChangesNothing ==
    \A s \in Scrapers :
        GotMalformed(s) =>
            /\ phase = "serving"
            /\ pc[s] = "idle"
            /\ result[s] = "parse_error"
            /\ post[s] = pre[s]

\* C5 witness: a malformed body arrives at a collector whose gauges an
\* earlier scrape had set.
C5_Witness ==
    \E s \in Scrapers :
        /\ GotMalformed(s)
        /\ pc[s] = "idle"
        /\ pre[s] # NewGauges(col[s])

\* C6: on a transport error Collect() emits nothing, changes no gauge,
\* releases the mutex and returns.
C6_FetchErrorEmitsNothing ==
    \A s \in Scrapers :
        resp[s].kind = "error" =>
            /\ pc[s] = "idle"
            /\ result[s] = "fetch_error"
            /\ emitted[s] = NoMetrics
            /\ post[s] = pre[s]
            /\ mutex[col[s]] => \E o \in Scrapers \ {s} : Holding(o) /\ col[o] = col[s]

\* C6 witness: a transport error at a collector whose gauges an earlier
\* scrape had set.
C6_Witness ==
    \E s \in Scrapers :
        /\ resp[s].kind = "error"
        /\ pc[s] = "idle"
        /\ pre[s] # NewGauges(col[s])
        /\ ~mutex[col[s]]

\* Scraper s returned from a failed scrape.
Failed(s) == Returned(s) /\ result[s] \in {"fetch_error", "parse_error"}

\* C7 as stated: the output of a failed scrape is the gauge state from before
\* the scrape.
C7_FailedScrapeEmitsPrevious ==
    \A s \in Scrapers : Failed(s) => emitted[s] = Sent(pre[s])

\* C7 amended: a failed scrape sends nothing on the output channel; the gauge
\* state from before the scrape stays in the collector, unchanged.
C7_FailedScrapeEmitsNothingKeepsState ==
    \A s \in Scrapers :
        Failed(s) => (emitted[s].sent = FALSE /\ post[s] = pre[s])

\* C7 witness: a scrape fails on a JSON type error at a collector whose
\* gauges an earlier scrape had set.
C7_Witness ==
    \E s \in Scrapers :
        /\ Failed(s)
        /\ result[s] = "parse_error"
        /\ resp[s].body.t # "bad"
        /\ pre[s] # NewGauges(col[s])

\* The gauges of a collector that copy a JSON number, with its member name.
NumericMembers(c) ==
    CASE c = "cycle"   -> [used |-> "cycle_used", remaining |-> "cycle_remaining",
                           max |-> "cycle_max"]
      [] c = "bounces" -> [emails |-> "emails", rejects |-> "rejects",
                           softBounces |-> "softbounces", hardBounces |-> "hardbounces"]
      [] c = "spam"    -> [emails |-> "emails", rejects |-> "rejects", spams |-> "spams"]
      [] c = "unsubs"  -> [emails |-> "emails", rejects |-> "rejects",
                           unsubscribes |-> "unsubscribes"]

\* The gauge of a collector that is parsed from a JSON string, and the
\* member it is parsed from.
ParsedGauge(c) ==
    CASE c = "cycle"   -> "remainingSeconds"
      [] c = "bounces" -> "bouncePercent"
      [] c = "spam"    -> "spamPercent"
      [] c = "unsubs"  -> "unsubscribePercent"

ParsedMember(c) ==
    CASE c = "cycle"   -> "cycle_end"
      [] c = "bounces" -> "bounce_percent"
      [] c = "spam"    -> "spam_percent"
      [] c = "unsubs"  -> "unsubscribe_percent"

PercentCollectors == {"bounces", "spam", "unsubs"}

\* json.Unmarshal accepts the body for collector c.
Unmarshals(c, body) ==
    CASE c = "cycle"   -> ~UnmarshalCycle(body).err
      [] c = "bounces" -> ~UnmarshalBounces(body).err
      [] c = "history" -> ~UnmarshalHistory(body).err
      [] c = "spam"    -> ~UnmarshalSpam(body).err
      [] c = "unsubs"  -> ~UnmarshalUnsubs(body).err

\* The number the response gives for a member (0 when it is absent).
NumberIn(body, member) == decodeFloat(Field(Field(body, "data"), member)).val

\* The string the response gives for a member ("" when it is absent).
StringIn(body, member) == decodeString(Field(Field(body, "data"), member)).val

\* Scraper s got valid JSON whose parsed member does not convert.
ConversionFails(s) ==
    /\ resp[s].kind = "body"
    /\ Unmarshals(col[s], resp[s].body)
    /\ IF col[s] = "cycle"
       THEN timeParse(StringIn(resp[s].body, "cycle_end")).err
       ELSE ParseFloat(StringIn(resp[s].body, ParsedMember(col[s]))).err

\* The gauges of col[s] once s has set them: read under the mutex before the
\* return, and as recorded at the return.
GaugesSetBy(s) == IF pc[s] = "emit" THEN gauges[col[s]] ELSE post[s]

\* Only the parsed gauge kept its value, every numeric gauge has the value of
\* the response, and the scrape went on to emit all of them.
OnlyParsedGaugeKept(s) ==
    /\ pc[s] \in {"emit", "idle"}
    /\ GaugesSetBy(s)[ParsedGauge(col[s])] = pre[s][ParsedGauge(col[s])]
    /\ \A f \in DOMAIN NumericMembers(col[s]) :
          GaugesSetBy(s)[f] = NumberIn(resp[s].body, NumericMembers(col[s])[f])
    /\ pc[s] = "idle" => (result[s] = "ok" /\ emitted[s] = Sent(post[s]))

\* C8: in the bounces, spam and unsubscribes collectors a percentage string
\* that does not parse leaves only the percentage gauge at its previous
\* value; the sibling gauges take the response's values and the scrape is not
\* abandoned.
C8_BadPercentSkipsOnlyPercent ==
    \A s \in Scrapers :
        (col[s] \in PercentCollectors /\ ConversionFails(s)) => OnlyParsedGaugeKept(s)

\* C8 witness: a bounces scrape with an unparseable percentage returned, and
\* the percentage gauge still holds the non-zero value of an earlier scrape.
C8_Witness ==
    \E s \in Scrapers :
        /\ col[s] = "bounces" /\ ConversionFails(s) /\ Returned(s)
        /\ pre[s].bouncePercent # Dec(0, 0)
        /\ post[s].bouncePercent = pre[s].bouncePercent
        /\ post[s].emails # pre[s].emails

\* C9: a cycle_end that does not match the layout leaves only
\* remaining_seconds at its previous value; used, remaining and max take the
\* response's values and all four gauges are emitted.
C9_BadCycleEndSkipsOnlyRemainingSeconds ==
    \A s \in Scrapers :
        (col[s] = "cycle" /\ ConversionFails(s)) =>
            /\ OnlyParsedGaugeKept(s)
            /\ pc[s] = "idle" =>
                  DOMAIN emitted[s].metrics =
                      {"used", "remaining", "max", "remainingSeconds"}

\* C9 witness: a cycle scrape with a cycle_end in another layout returned,
\* and remaining_seconds still holds the non-zero value of an earlier scrape.
C9_Witness ==
    \E s \in Scrapers :
        /\ col[s] = "cycle" /\ ConversionFails(s) /\ Returned(s)
        /\ StringIn(resp[s].body, "cycle_end") # <<>>
        /\ pre[s].remainingSeconds # 0
        /\ post[s].remainingSeconds = pre[s].remainingSeconds
        /\ post[s].used # pre[s].used

\* The data object of the response has the member, with the JSON type t.
HasMember(body, member, t) ==
    LET data == Field(body, "data")
    IN  data.t = "obj" /\ member \in DOMAIN data.f /\ data.f[member].t = t

\* A history entry with its address and its nine counters.
IsHistoryEntry(v) ==
    /\ v.t = "obj"
    /\ "email_address" \in DOMAIN v.f /\ v.f["email_address"].t = "str"
    /\ \A k \in MetricNames : k \in DOMAIN v.f /\ v.f[k].t = "num"

\* The body is valid JSON with every member of the endpoint's schema.
MatchesSchema(c, body) ==
    IF c = "history"
    THEN /\ HasMember(body, "history", "arr")
         /\ \A i \in 1..Len(Field(body, "data").f["history"].a) :
               IsHistoryEntry(Field(body, "data").f["history"].a[i])
    ELSE /\ \A f \in DOMAIN NumericMembers(c) : HasMember(body, NumericMembers(c)[f], "num")
         /\ HasMember(body, ParsedMember(c), "str")

\* The gauges g of a scalar collector carry the values of the response.
ScalarGaugesMatch(c, g, body) ==
    LET data == Field(body, "data").f
    IN  /\ \A f \in DOMAIN NumericMembers(c) : g[f] = data[NumericMembers(c)[f]].n
        /\ (c \in PercentCollectors /\ ~ParseFloat(data[ParsedMember(c)].s).err) =>
              g[ParsedGauge(c)] = ParseFloat(data[ParsedMember(c)].s).val

\* The gauge vectors m carry one series per listed address, with the values
\* of the entry that lists the address (the last one, if several do).
HistoryGaugesMatch(m, body) ==
    LET entries == Field(body, "data").f["history"].a
    IN  \A k \in MetricNames :
            /\ DOMAIN m[k] = {entries[i].f["email_address"].s : i \in 1..Len(entries)}
            /\ \A i \in 1..Len(entries) :
                  (\A j \in (i + 1)..Len(entries) :
                       entries[j].f["email_address"] # entries[i].f["email_address"])
                  => m[k][entries[i].f["email_address"].s] = entries[i].f[k].n

GaugesMatch(c, g, body) ==
    IF c = "history" THEN HistoryGaugesMatch(g, body) ELSE ScalarGaugesMatch(c, g, body)

\* C10: for a response that is valid JSON matching the endpoint schema,
\* Collect() leaves each gauge equal to its member of the response (the
\* parsed float for a percentage) and emits exactly these values.
C10_ValidResponseSetsEveryGauge ==
    \A s \in Scrapers :
        (resp[s].kind = "body" /\ MatchesSchema(col[s], resp[s].body)) =>
            /\ pc[s] \in {"emit", "idle"}
            /\ GaugesMatch(col[s], GaugesSetBy(s), resp[s].body)
            /\ pc[s] = "idle" => (result[s] = "ok" /\ emitted[s] = Sent(post[s]))

\* C10 witness: the README's bounces example, scraped after a response with
\* other values: emails 414, rejects 108 and bounce_percent 0 are emitted.
C10_Witness ==
    \E s \in Scrapers :
        /\ col[s] = "bounces" /\ Returned(s) /\ result[s] = "ok"
        /\ MatchesSchema("bounces", resp[s].body)
        /\ pre[s].bouncePercent # Dec(0, 0)
        /\ emitted[s].metrics.emails = 414
        /\ emitted[s].metrics.rejects = 108
        /\ emitted[s].metrics.bouncePercent = Dec(0, 0)

\* The parsed gauge as the response of s gives it: the parsed percentage, or
\* the seconds from the clock reading of s to cycle_end.
OwnParsed(s) ==
    IF col[s] = "cycle"
    THEN timeParse(StringIn(resp[s].body, "cycle_end")).val - readAt[s]
    ELSE ParseFloat(StringIn(resp[s].body, ParsedMember(col[s]))).val

\* Every value of g is the value the response of s gives for it; only a
\* parsed gauge whose conversion failed has the value from before the call.
OwnValues(s, g) ==
    IF col[s] = "history"
    THEN IF MatchesSchema("history", resp[s].body)
         THEN HistoryGaugesMatch(g, resp[s].body)
         ELSE \A k \in MetricNames : g[k] = <<>>
    ELSE /\ \A f \in DOMAIN NumericMembers(col[s]) :
               g[f] = NumberIn(resp[s].body, NumericMembers(col[s])[f])
         /\ g[ParsedGauge(col[s])] =
               IF ConversionFails(s) THEN pre[s][ParsedGauge(col[s])] ELSE OwnParsed(s)

C12_MutexHeldOnlyDuringCollect ==
    \A c \in Collectors :
        mutex[c] => \E s \in Scrapers : Holding(s) /\ col[s] = c

\* C12 witness: on one collector a call returned on a JSON error and another
\* returned after a conversion error, and the mutex is free.
C12_Witness ==
    \E s1, s2 \in Scrapers :
        /\ col[s1] = col[s2]
        /\ Returned(s1) /\ result[s1] = "parse_error"
        /\ Returned(s2) /\ result[s2] = "ok" /\ ConversionFails(s2)
        /\ ~mutex[col[s1]]

\* C13: every Collect() call that has acquired the mutex issues exactly one
\* upstream request of its own, so for each collector the number of requests
\* handed to client.Do equals the number of Lock() calls that have returned.
C13_OneRequestPerLock ==
    \A c \in Collectors : Len(requests[c]) = locks[c]

\* No call on the collector of s is between Lock() and its return.
NoHolderBeside(s) ==
    \A o \in Scrapers \ {s} : ~(Holding(o) /\ col[o] = col[s])

\* C14: calls on different collectors are independent. A call waiting in
\* Lock() can go on whenever no call on its own collector holds the mutex,
\* whatever is in progress on the other collectors; and a step that changes
\* the gauges of a collector is a step of a call on that collector and leaves
\* the gauges of every other collector as they were.
C14_CollectorsIndependent ==
    /\ [](\A s \in Scrapers :
             (phase = "serving" /\ pc[s] = "lock" /\ NoHolderBeside(s))
                 => ENABLED CollectLock(s))
    /\ [][\A c \in Collectors :
             gauges'[c] # gauges[c] =>
                 /\ \E s \in Scrapers : pc[s] = "await" /\ col[s] = c /\ pc'[s] # "await"
                 /\ \A d \in Collectors \ {c} : gauges'[d] = gauges[d]]_vars

\* C14 witness: a call waits for its response on one collector while a call
\* on another collector has acquired its own mutex and set its gauges.
C14_Witness ==
    \E s1, s2 \in Scrapers :
        /\ col[s1] # col[s2]
        /\ pc[s1] = "await"
        /\ pc[s2] = "emit"
        /\ gauges[col[s2]] # NewGauges(col[s2])
        /\ gauges[col[s1]] = NewGauges(col[s1])

\* C15: under fair scheduling every Collect() call that is started eventually
\* returns, a call that waited in Lock() behind another call included.
C15_EveryCollectReturns ==
    \A s \in Scrapers : (pc[s] = "lock") ~> (pc[s] = "idle")

\* The body matches the endpoint's schema and its parsed member converts.
FullyValid(c, body) ==
    /\ MatchesSchema(c, body)
    /\ c = "cycle" => ~timeParse(StringIn(body, "cycle_end")).err
    /\ c \in PercentCollectors => ~ParseFloat(StringIn(body, ParsedMember(c))).err

\* The gauges a collector with no earlier scrape holds after the response of
\* s, read at the clock reading of s.
FreshResult(s) == ParseAndSet(col[s], NewGauges(col[s]), resp[s].body, readAt[s]).g

\* C16: a Collect() whose response is fully valid leaves every gauge equal to
\* what that response alone gives, whatever earlier scrapes (failed or not)
\* left in the collector, and emits these values.
C16_ValidResponseOverridesHistory ==
    \A s \in Scrapers :
        (resp[s].kind = "body" /\ FullyValid(col[s], resp[s].body)) =>
            /\ pc[s] \in {"emit", "idle"}
            /\ GaugesSetBy(s) = FreshResult(s)
            /\ pc[s] = "idle" => (result[s] = "ok" /\ emitted[s] = Sent(post[s]))

\* C16 witness: a scrape whose percentage did not convert left its numbers in
\* the collector, and the next scrape, fully valid, returned.
C16_Witness ==
    \E s, o \in Scrapers :
        /\ s # o /\ col[s] = col[o] /\ col[s] \in PercentCollectors
        /\ Returned(o) /\ ConversionFails(o)
        /\ Returned(s) /\ resp[s].kind = "body" /\ FullyValid(col[s], resp[s].body)
        /\ pre[s] = post[o]
        /\ pre[s] # NewGauges(col[s])
        /\ post[s] # pre[s]

\* The path each collector is said to request.
ClaimedPath ==
    [cycle   |-> <<"/", "stats", "/", "email_cycle">>,
     bounces |-> <<"/", "stats", "/", "email_bounces">>,
     history |-> <<"/", "stats", "/", "email_history">>,
     spam    |-> <<"/", "stats", "/", "email_spam">>,
     unsubs  |-> <<"/", "stats", "/", "email_unsubs">>]

\* Every registered collector has been called in the scrape and every call
\* has returned.
ScrapeDone ==
    /\ phase = "serving"
    /\ \A c \in RegisteredCollectors(registry) : locks[c] = 1
    /\ \A s \in Scrapers : pc[s] = "idle"

\* C17: the process registers exactly the five collectors; every request of
\* a collector is a POST to the base URL followed by the collector's own
\* path, with the configured key; and when one scrape of all collectors is
\* done each of the five endpoints has been requested exactly once.
C17_EachEndpointOncePerScrape ==
    /\ phase = "serving" =>
          RegisteredCollectors(registry) = {"cycle", "bounces", "history", "spam", "unsubs"}
    /\ \A c \in Collectors :
          \A i \in 1..Len(requests[c]) :
              requests[c][i] =
                  [method |-> "POST", url |-> apiURL \o ClaimedPath[c], api_key |-> apiKey]
    /\ ScrapeDone => \A c \in DOMAIN ClaimedPath : Len(requests[c]) = 1

\* C17 witness: a scrape of all five collectors is done, with a base URL
\* that has a scheme, and at least one collector got a response.
C17_Witness ==
    /\ ScrapeDone
    /\ Cardinality(RegisteredCollectors(registry)) = 5
    /\ \A c \in Collectors : HasScheme(apiURL \o Endpoint(c)) /\ Len(requests[c]) = 1
    /\ \E c \in Collectors : gauges[c] # NewGauges(c)

\* The short name of a registered gauge.
ShortName(d) == GaugeNames(d.collector)[d.field]

\* C18: no two gauges of the five collectors have the same fully qualified
\* name, so every gauge of every collector is registered, although short
\* names are shared between collectors.
C18_FqNamesDistinct ==
    /\ \A d, e \in registry : d # e => d.fqName # e.fqName
    /\ phase \notin {"init", "exited"} =>
          \A c \in Collectors :
              \A i \in 1..Len(GaugeNames(c)) :
                  \E d \in registry : d.collector = c /\ d.field = i

\* C18 witness: the exporter serves with gauges registered whose short name
\* is declared by several collectors (emails, rejects, used) or is the name
\* of another collector's family (bounces, spam of history).
C18_Witness ==
    /\ phase = "serving"
    /\ \A n \in {<<"emails">>, <<"rejects">>, <<"used">>, <<"unsubscribes">>} :
          \E d, e \in registry : d.collector # e.collector /\ ShortName(d) = n /\ ShortName(e) = n
    /\ \E d \in registry : d.collector = "history" /\ ShortName(d) = <<"bounces">>
    /\ \E d \in registry : d.collector = "history" /\ ShortName(d) = <<"spam">>

\* C19: with an empty API key the process exits in main() before a
\* collector is registered and before the listener serves; no Collect() runs
\* and no upstream request is issued in that run.
C19_NoKeyExitsBeforeSetup ==
    apiKey = "" =>
        /\ phase \in {"init", "exited"}
        /\ registry = {}
        /\ \A c \in Collectors : requests[c] = <<>> /\ locks[c] = 0
        /\ \A s \in Scrapers : pc[s] = "idle"

\* C19 witness: the process has exited on an empty key although the base URL
\* given was a usable one.
C19_Witness ==
    /\ apiKey = ""
    /\ phase = "exited"
    /\ flagNames \subseteq DefinedFlags
    /\ HasScheme(apiURL)

\* C20: the README's invocation (-api-url <base URL> -api-key <key>) is
\* accepted by the flag set and starts the exporter against that base URL
\* with that key.
C20_ReadmeInvocationStarts ==
    (flagNames = ReadmeFlags /\ phase # "init") =>
        /\ phase = "serving"
        /\ apiURL = TrimRight(ReadmeURL)
        /\ apiKey = ReadmeKey

\* What Collect() of col[s] makes of the body s got, from the gauges it found.
Processed(s) == ParseAndSet(col[s], pre[s], resp[s].body, readAt[s])

\* C21: a response with a status other than 200 is never a fetch error:
\* Collect() processes its body as it would with status 200, returning on a
\* JSON error and otherwise setting and emitting the gauges from the body.
C21_StatusCodeIgnored ==
    \A s \in Scrapers :
        (resp[s].kind = "body" /\ resp[s].status # "200 OK") =>
            /\ result[s] # "fetch_error"
            /\ pc[s] \in {"emit", "idle"}
            /\ GaugesSetBy(s) = Processed(s).g
            /\ pc[s] = "idle" =>
                  IF Processed(s).err
                  THEN result[s] = "parse_error" /\ emitted[s] = NoMetrics
                  ELSE result[s] = "ok" /\ emitted[s] = Sent(Processed(s).g)

\* C21 witness: the bounces endpoint answered 500 with a body that is valid
\* for the schema, and its numbers were set and emitted.
C21_Witness ==
    \E s \in Scrapers :
        /\ col[s] = "bounces" /\ Returned(s)
        /\ resp[s].kind = "body" /\ resp[s].status # "200 OK"
        /\ MatchesSchema("bounces", resp[s].body)
        /\ result[s] = "ok"
        /\ emitted[s].sent /\ emitted[s].metrics.emails = 414
        /\ post[s] # pre[s]

\* C22: nothing but the completion of its request ends a Collect() call that
\* waits for the response: there is no timeout and no cancellation. While it
\* waits it holds the collector's mutex, and no other call on the same
\* collector gets past Lock().
C22_HungRequestBlocksCollector ==
    /\ [](\A s \in Scrapers :
             pc[s] = "await" =>
                 /\ mutex[col[s]]
                 /\ \A o \in Scrapers \ {s} :
                        (pc[o] = "lock" /\ col[o] = col[s]) => ~ENABLED CollectLock(o))
    /\ [][\A s \in Scrapers :
             (pc[s] = "await" /\ pc'[s] # "await") =>
                 /\ resp[s] = NoResp
                 /\ resp'[s].kind \in {"error", "body"}]_vars

\* C22 witness: a call waits for a response that has not come, and a later
\* call on the same collector has found the mutex held and waits in Lock().
C22_Witness ==
    \E s, o \in Scrapers :
        /\ s # o /\ col[s] = col[o]
        /\ pc[s] = "await" /\ resp[s] = NoResp
        /\ pc[o] = "lock" /\ waited[o]
        /\ calls = MaxCalls

\* C23: Describe() can be called at any moment after registration, also
\* while a Collect() on the same collector holds the mutex; it changes no
\* gauge, issues no request, leaves the mutex as it is, and sends the
\* descriptors registered for the collector every time.
C23_DescribeTouchesNothing ==
    /\ [](phase = "serving" => \A c \in Collectors : ENABLED Describe(c))
    /\ [][described' # described =>
             /\ UNCHANGED <<gauges, mutex, locks, requests, pc, emitted, post, result>>
             /\ described'.descs = {d \in registry : d.collector = described'.collector}]_vars

\* C23 witness: Describe() ran on a collector while a Collect() call on it
\* was waiting for its response, and the call still waits.
C23_Witness ==
    \E s \in Scrapers :
        /\ pc[s] = "await"
        /\ described.collector = col[s]
        /\ described.during
        /\ mutex[col[s]]

\* C24: the debug flag changes only what is logged. With or without it the
\* requests are the same, the bytes doPostRequest returns are the bytes
\* received, and the gauges left and emitted are those the received body
\* gives; a raw response is logged only with the flag set.
C24_DebugChangesOnlyLog ==
    /\ \A c \in Collectors :
          \A i \in 1..Len(requests[c]) :
              requests[c][i] =
                  [method |-> "POST", url |-> apiURL \o Endpoint(c), api_key |-> apiKey]
    /\ \A s \in Scrapers :
          /\ logged[s] # <<>> => (debug /\ logged[s] = <<resp[s].body>>)
          /\ resp[s].kind = "body" =>
                /\ pc[s] \in {"emit", "idle"}
                /\ GaugesSetBy(s) = Processed(s).g
                /\ (pc[s] = "idle" /\ ~Processed(s).err) => emitted[s] = Sent(Processed(s).g)
                /\ (pc[s] = "idle" /\ Processed(s).err) => emitted[s] = NoMetrics

\* C24 witness: with -debug a call logged the raw response, set its gauges
\* from it and emitted them.
C24_Witness ==
    \E s \in Scrapers :
        /\ debug
        /\ Returned(s) /\ result[s] = "ok"
        /\ logged[s] = <<resp[s].body>>
        /\ post[s] # pre[s]
        /\ emitted[s] = Sent(Processed(s).g)

\* C25: in the single-collector variant, a response whose cycle_end does not
\* parse still sets max, remaining and used from the response, and these
\* gauges are still sent in that scrape.
C25_ApiBadCycleEndStillEmits ==
    \A s \in Scrapers :
        (/\ pc[s] = "idle"
         /\ resp[s].kind = "body"
         /\ ~UnmarshalApiResponse(resp[s].body).err
         /\ timeParse(UnmarshalApiResponse(resp[s].body).Data.CycleEnd).err)
        => /\ post[s].max = UnmarshalApiResponse(resp[s].body).Data.CycleMax
           /\ post[s].remaining = UnmarshalApiResponse(resp[s].body).Data.CycleRemaining
           /\ post[s].used = UnmarshalApiResponse(resp[s].body).Data.CycleUsed
           /\ post[s].remainingSeconds = pre[s].remainingSeconds
           /\ emitted[s] = Sent(post[s])

\* The email_address label values of history vector k.
LabelValues(k) == DOMAIN gauges["history"][k]

\* No Collect() call on the history collector is between Lock() and return.
HistoryQuiet == \A s \in Scrapers : ~(Holding(s) /\ col[s] = "history")

\* C26: whenever no Collect() is in progress on the history collector, the
\* nine history vectors hold the same set of email_address label values.
C26_HistoryVectorsSameLabels ==
    HistoryQuiet => \A k \in MetricNames : LabelValues(k) = LabelValues("used")

\* A successful history scrape listed two addresses, a later one failed, and
\* the vectors hold these two addresses.
C26_Witness ==
    /\ HistoryQuiet
    /\ \E s, o \in Scrapers :
          /\ s # o
          /\ Returned(s) /\ col[s] = "history" /\ result[s] = "ok"
          /\ Returned(o) /\ col[o] = "history" /\ result[o] \in {"parse_error", "fetch_error"}
          /\ post[o] = post[s]
    /\ LabelValues("unsubscribes") = {Alice, Bob}

\* The entries of the history response that scraper s received.
EntriesOf(s) == UnmarshalHistory(resp[s].body).History

\* The last entry for address a in the list.
LastEntryFor(entries, a) ==
    entries[CHOOSE i \in 1..Len(entries) :
                /\ entries[i].EmailAddress = a
                /\ \A j \in (i + 1)..Len(entries) : entries[j].EmailAddress # a]

\* The response lists an address in more than one entry.
ListsAddressTwice(entries) ==
    \E i, j \in 1..Len(entries) : i < j /\ entries[i].EmailAddress = entries[j].EmailAddress

\* C27: after a history Collect() that set the vectors, every listed address
\* has in each vector the value of the last entry that names it, also when
\* several entries name it.
C27_LastEntryWins ==
    \A s \in Scrapers :
        (Returned(s) /\ col[s] = "history" /\ result[s] = "ok")
        => /\ \A i \in 1..Len(EntriesOf(s)), k \in MetricNames :
                 LET a == EntriesOf(s)[i].EmailAddress
                 IN  /\ a \in DOMAIN post[s][k]
                     /\ post[s][k][a] = LastEntryFor(EntriesOf(s), a).val[k]
           /\ emitted[s] = Sent(post[s])

\* A response with two entries for Alice left her series at the second
\* entry's values.
C27_Witness ==
    \E s \in Scrapers :
        /\ Returned(s) /\ col[s] = "history" /\ result[s] = "ok"
        /\ ListsAddressTwice(EntriesOf(s))
        /\ EntriesOf(s)[1].val["used"] = 40
        /\ DOMAIN post[s]["used"] = {Alice}
        /\ post[s]["used"][Alice] = 50
        /\ post[s]["unsubscribes"][Alice] = 58

\* The data object of the body has no such member (or has it as null).
Absent(body, member) == Field(Field(body, "data"), member).t = "null"

\* The member is absent or has the JSON type t.
AbsentOr(body, member, t) == Absent(body, member) \/ HasMember(body, member, t)

\* The body is a JSON object in which every member of the schema of
\* collector c is either absent or of the schema's type, and at least one is
\* absent.
OmitsFields(c, body) ==
    /\ body.t = "obj"
    /\ Field(body, "request_id").t \in {"str", "null"}
    /\ Field(body, "data").t \in {"obj", "null"}
    /\ IF c = "history"
       THEN /\ Absent(body, "history")
            /\ AbsentOr(body, "count", "num")
       ELSE /\ \A f \in DOMAIN NumericMembers(c) : AbsentOr(body, NumericMembers(c)[f], "num")
            /\ AbsentOr(body, ParsedMember(c), "str")
            /\ c = "cycle" => AbsentOr(body, "cycle_start", "str")
            /\ \/ Absent(body, ParsedMember(c))
               \/ \E f \in DOMAIN NumericMembers(c) : Absent(body, NumericMembers(c)[f])

\* C28: a well-formed response that omits members is not a parse failure:
\* Collect() sets the numeric gauge of every absent member to 0, leaves the
\* percentage or remaining_seconds gauge of an absent string member at its
\* previous value, removes every history label value, and emits.
C28_OmittedFieldsReadAsZero ==
    \A s \in Scrapers :
        (resp[s].kind = "body" /\ OmitsFields(col[s], resp[s].body))
        => /\ pc[s] \in {"emit", "idle"}
           /\ IF col[s] = "history"
              THEN \A k \in MetricNames : DOMAIN GaugesSetBy(s)[k] = {}
              ELSE /\ \A f \in DOMAIN NumericMembers(col[s]) :
                         Absent(resp[s].body, NumericMembers(col[s])[f])
                         => GaugesSetBy(s)[f] = 0
                   /\ Absent(resp[s].body, ParsedMember(col[s]))
                      => GaugesSetBy(s)[ParsedGauge(col[s])] = pre[s][ParsedGauge(col[s])]
           /\ pc[s] = "idle" => (result[s] = "ok" /\ emitted[s] = Sent(post[s]))

\* A bounces scrape answered with {} after one that set the gauges: the
\* counters are back at 0 and the percentage is the one of the scrape before.
C28_Witness ==
    \E s \in Scrapers :
        /\ Returned(s) /\ col[s] = "bounces"
        /\ resp[s].kind = "body" /\ resp[s].body = JEmptyObj
        /\ pre[s].emails = 1
        /\ pre[s].bouncePercent # NewGauges("bounces").bouncePercent
        /\ post[s].emails = 0 /\ post[s].hardBounces = 0
        /\ post[s].bouncePercent = pre[s].bouncePercent
        /\ emitted[s] = Sent(post[s])

\* The member is present with a JSON type other than t.
WrongType(v, member, t) == Field(v, member).t \notin {"null", t}

\* The body is well-formed JSON in which a member of the schema of collector
\* c has another JSON type than the schema gives it.
HasWrongType(c, body) ==
    /\ body.t = "obj"
    /\ LET data == Field(body, "data")
       IN  IF c = "history"
           THEN \/ WrongType(data, "history", "arr")
                \/ /\ Field(data, "history").t = "arr"
                   /\ \E i \in 1..Len(Field(data, "history").a) :
                         LET e == Field(data, "history").a[i]
                         IN  \/ e.t \notin {"obj", "null"}
                             \/ WrongType(e, "email_address", "str")
                             \/ \E k \in MetricNames : WrongType(e, k, "num")
           ELSE \/ \E f \in DOMAIN NumericMembers(c) : WrongType(data, NumericMembers(c)[f], "num")
                \/ WrongType(data, ParsedMember(c), "str")

\* C29: a response in which a member has another JSON type than the schema
\* is a parse failure of the whole response: the call returns with every
\* gauge of the collector as it found it and sends nothing.
C29_TypeMismatchChangesNothing ==
    \A s \in Scrapers :
        (resp[s].kind = "body" /\ HasWrongType(col[s], resp[s].body))
        => /\ pc[s] = "idle"
           /\ result[s] = "parse_error"
           /\ post[s] = pre[s]
           /\ emitted[s] = NoMetrics

\* A spam scrape whose rejects member is a string, after one that set the
\* gauges: the other members (emails 1, spams 3) were of the right type and
\* were not applied either.
C29_Witness ==
    \E s \in Scrapers :
        /\ Returned(s) /\ col[s] = "spam"
        /\ resp[s].kind = "body"
        /\ WrongType(Field(resp[s].body, "data"), "rejects", "num")
        /\ HasMember(resp[s].body, "emails", "num")
        /\ NumberIn(resp[s].body, "emails") = 1
        /\ pre[s].emails = 7
        /\ post[s] = pre[s]
        /\ gauges["spam"] = pre[s]
        /\ emitted[s] = NoMetrics

\* C30: once startup is past the check of the options, the base URL of the
\* collectors is non-empty and does not end with "/", and every request URL
\* is this base followed by the endpoint, which starts with its one "/".
C30_BaseUrlNonEmptyWithoutSlash ==
    phase \in {"serving", "crashed"}
    => /\ apiURL # <<>>
       /\ apiURL[Len(apiURL)] # "/"
       /\ \A c \in Collectors : \A i \in 1..Len(requests[c]) :
             requests[c][i].url = apiURL \o Endpoint(c)

====
